---- MODULE Spec2Model ----
(***************************************************************************)
(* GraphWin (easygraphics/graphwin.py): the synchronisation and pacing     *)
(* core of the graphics window.                                            *)
(*                                                                         *)
(* Two threads share the window object:                                    *)
(*   - the event thread runs the Qt callbacks (mousePressEvent,            *)
(*     mouseReleaseEvent, keyPressEvent, closeEvent), one at a time;       *)
(*   - the user-logic thread runs pause / get_char / get_key /             *)
(*     get_mouse_msg / delay / delay_fps / delay_jfps / set_immediate.     *)
(* Both threads advance one Python statement at a time; a program counter  *)
(* named after the source line about to be executed records the position   *)
(* of each thread (upc for the user-logic thread, epc for the event        *)
(* thread).  time.perf_counter_ns() is the variable clock, advanced by     *)
(* Tick between any two statements and by the sleeps.                      *)
(***************************************************************************)
EXTENDS Integers, Sequences, FiniteSets, TLC

VARIABLES
    is_run,                 \* self._is_run
    immediate,              \* self._immediate
    wait_event,             \* self._wait_event      (threading.Event flag)
    mouse_event,            \* self._mouse_event     (threading.Event flag)
    key_event,              \* self._key_event       (threading.Event flag)
    char_key_event,         \* self._char_key_event  (threading.Event flag)
    key_msg,                \* self._key_msg       : [time, key_event]
    key_char_msg,           \* self._key_char_msg  : [time, key]
    mouse_msg,              \* self._mouse_msg     : [time, mouse_event, type]
    canvas,                 \* content of self._canvas (a version number)
    device_image,           \* content of self._device_image
    window,                 \* content last painted on the window (the widget)
    capture_count,          \* self._capture_count
    frames_to_skip_count,   \* self._frames_to_skip_count
    last_fps_time,          \* self._last_fps_time
    frames_skipped,         \* self._frames_skipped
    clock,                  \* time.perf_counter_ns()
    upc,                    \* user-logic thread: next statement
    op,                     \* user-logic thread: operation called last
    args,                   \* its arguments [fps, max_skip_count, milliseconds]
    loc,                    \* its locals [nt, e, t]
    ret,                    \* its result [tag, val]
    epc,                    \* event thread: next statement
    cur,                    \* event thread: the event being handled [e, t]
    hist                    \* history of the current call and of the frame run

vars == << is_run, immediate, wait_event, mouse_event, key_event, char_key_event,
           key_msg, key_char_msg, mouse_msg, canvas, device_image,
           window, capture_count, frames_to_skip_count, last_fps_time, frames_skipped, clock,
           upc, op, args, loc, ret, epc, cur, hist >>

winVars   == << is_run, immediate >>
sigVars   == << wait_event, mouse_event, key_event, char_key_event >>
msgVars   == << key_msg, key_char_msg, mouse_msg >>
imgVars   == << canvas, device_image, window, capture_count >>
pacerVars == << frames_to_skip_count, last_fps_time, frames_skipped >>
userVars  == << upc, op, args, loc, ret >>
eventVars == << epc, cur >>

----------------------------------------------------------------------------
(* Bounds of the model *)

\* the clock advances at most MaxTicks times by TickNs (sleeps included)
MaxTicks == 2
\* a run holds at most MaxInputs input events and input calls (pause, get_*)
\* together
MaxInputs == 3
\* the canvas is drawn on at most MaxDraw times
MaxDraw == 2
\* a run of frames lasts at most MaxWork ticks of the clock (sleeps included)
MaxWork == 5
\* and holds at most MaxFrames calls of set_immediate and the delay operations
MaxFrames == 4
\* a run of consecutive False returns of delay_jfps is counted up to MaxFalses
MaxFalses == 4

----------------------------------------------------------------------------
(* Constants of the program and of Qt *)

\* 100 ms in nanoseconds: the freshness window of a message
FRESH_NS == 100000000
\* nanoseconds per second, and per millisecond
NS_PER_S == 1000000000
NS_PER_MS == 1000000
\* Python's None (an unset payload), as an event identity
None == -1
\* QtCore.Qt.Key_Escape, Key_Return
Key_Escape == 16777216
Key_Return == 16777220
\* QtCore.Qt.NoModifier, QtCore.Qt.NoButton
NoModifier == 0
NoButton == 0
\* QtCore.Qt.Key_F10
Key_F10 == 16777273
\* QtCore.Qt.ShiftModifier, ControlModifier, AltModifier
ShiftModifier == 33554432
ControlModifier == 67108864
AltModifier == 134217728
\* e.key() < 127 : ascii char key
ASCII_LIMIT == 127
\* the space character returned by get_char on a closed window
SPACE == 32
\* easygraphics.consts.MouseMessageType
NO_MESSAGE == 0
PRESS_MESSAGE == 1
RELEASE_MESSAGE == 2

\* the first reading of a performance counter that starts with the process
ClockZero == 0
\* the granularity of the modelled clock: one freshness window
TickNs == FRESH_NS
\* perf_counter_ns() when the window is constructed (the counter runs since
\* boot, so it is past the freshness window)
StartClock == 2 * FRESH_NS
ClockLimit == StartClock + MaxTicks * TickNs
FrameClockLimit == StartClock + MaxWork * TickNs

\* the arguments the user program passes to the delay operations
FpsValues == {5, 10}
MaxSkipValues == {0, 1, 2}
MillisecondsValues == {100}

----------------------------------------------------------------------------
(* The events the window system delivers.  An event object is an identity *)
(* (1, 2, ...); key(), modifiers(), text(), x(), y(), button() read it.   *)
(* Key event 1 is the key A (Qt.Key_A = 65, text "A" = chr(65)), key      *)
(* event 2 the up arrow (Qt.Key_Up = 16777235, no text); mouse event 1 is *)
(* a press of the left button (1), mouse event 2 a release of the right   *)
(* button (2).  Key event 3 is F10 with Ctrl held, key event 4 F10 alone.  *)

KeyEvents == {1, 2}
\* the presses of F10
F10Events == {3, 4}
\* the QMouseEvent of a press and the one of a release are distinct objects
PressEvents == {1}
ReleaseEvents == {2}

\* QKeyEvent.key()
KeyOf(e) == IF e = 1 THEN 65 ELSE IF e = 2 THEN 16777235 ELSE Key_F10
\* QKeyEvent.modifiers()
ModifiersOf(e) == IF e = 3 THEN ControlModifier ELSE NoModifier
\* QKeyEvent.text(): the character typed ("" for a key that types nothing)
TextOf(e) == IF e = 1 THEN 65 ELSE 0
\* QMouseEvent.x(), y(), button()
XOf(e) == 10 * e
YOf(e) == 20 * e
ButtonOf(e) == e

\* graphwin.py:127  e.key() < 127 or e.key() == QtCore.Qt.Key_Return
IsCharKey(e) == KeyOf(e) < ASCII_LIMIT \/ KeyOf(e) = Key_Return

\* a & b of two non-negative integers
RECURSIVE BitAnd(_, _)
BitAnd(a, b) ==
    IF a = 0 \/ b = 0 THEN 0
    ELSE (a % 2) * (b % 2) + 2 * BitAnd(a \div 2, b \div 2)

\* graphwin.py:120-124  e.key() == QtCore.Qt.Key_F10 and
\* modifiers & (ControlModifier | ShiftModifier | AltModifier)
\* (the three masks share no bit: their union is their sum)
IsCaptureKey(e) ==
    /\ KeyOf(e) = Key_F10
    /\ BitAnd(ModifiersOf(e), ControlModifier + ShiftModifier + AltModifier) # 0

----------------------------------------------------------------------------
(* Results of a call *)

NoRet == [tag |-> "running", val |-> << >>]
Returns(v) == [tag |-> "return", val |-> v]
\* raise RuntimeError("Must set render mode to MANUAL to use delay()!")
RaisesRuntimeError == [tag |-> "RuntimeError", val |-> << >>]
\* QThread.usleep(unsigned long) given a negative number
RaisesOverflowError == [tag |-> "OverflowError", val |-> << >>]
\* Python's True, False and None as returned values
PyTrue == << 1 >>
PyFalse == << 0 >>
PyNone == << >>

NoLoc == [nt |-> 0, e |-> None, t |-> NO_MESSAGE]
NoArgs == [fps |-> 0, max_skip_count |-> 0, milliseconds |-> 0]
NoCur == [e |-> None, t |-> NO_MESSAGE]

\* the buffer holds a payload stored within 100 ms of the reading nt
Fresh(time, payload, nt) == payload # None /\ nt - time <= FRESH_NS

\* history of the call in progress (reset when a call starts):
\*   synced : number of real_update() calls it made
\*   slept  : it called QThread.usleep
\*   waited : it cleared a signal and waited on it
\*   stored : the event thread wrote into the buffer the call reads (payload,
\*            time or type) after the call started
\*   signalled : (pause: since it cleared the signal)
\*            an input handler set the signal the call waits on after the
\*            call started
\*   closed_call : the window was closed when the call started
\*   closed_wake : the window was closed when the call woke from its wait
\*   branch : the line of the return statement it left by
\*   held   : when it read the clock (get_*) or the time of the buffer its
\*            operation reads (a probe), that buffer held a payload stored
\*            within 100 ms
\*   had    : the payload the buffer held when the call read the clock
\*   void   : when the call read the clock, the buffer had been consumed
\*            and not written since
\*   quiet  : when the call read the clock, no handler was in progress
\*   late   : the payload the call read had been overwritten by a later one
\*   owed   : (delay_jfps) the whole frame periods gone since the last frame
\*            time when the call read the clock and found itself behind
\*            schedule (0 when it was not behind or did not get there)
\* and of the run of delay_jfps calls:
\*   falses : number of consecutive False returns of delay_jfps on an open
\*            window since its last True return
\*   skips  : the max_skip_count values delay_jfps was called with so far
\* and of the whole run:
\*   consumed : the buffers reset by a get_* call and not written since
\*   over   : for each buffer, the payloads that were overwritten by a
\*            later one before any call read them, and not stored again
\*   inputs : number of input events delivered and of input calls made
\*   frames : number of calls of set_immediate and the delay operations
\*   pre    : << frames_to_skip_count, frames_skipped, last_fps_time >> when
\*            the last delay operation was called
NewCall(h) == [h EXCEPT !.synced = 0, !.slept = FALSE, !.waited = FALSE,
                        !.stored = FALSE, !.signalled = FALSE, !.branch = 0,
                        !.closed_call = ~is_run, !.closed_wake = FALSE,
                        !.held = FALSE, !.had = None, !.void = FALSE,
                        !.quiet = FALSE, !.late = FALSE, !.owed = 0]

----------------------------------------------------------------------------
\* the window constructed when time.perf_counter_ns() reads c
InitAt(c) ==
    /\ is_run = TRUE
    /\ immediate = TRUE
    /\ wait_event = FALSE
    /\ mouse_event = FALSE
    /\ key_event = FALSE
    /\ char_key_event = FALSE
    /\ key_msg = [time |-> 0, key_event |-> None]
    /\ key_char_msg = [time |-> 0, key |-> None]
    /\ mouse_msg = [time |-> 0, mouse_event |-> None, type |-> NO_MESSAGE]
    /\ canvas = 0
    /\ device_image = 0
    /\ window = None
    /\ capture_count = 0
    /\ frames_to_skip_count = 0
    /\ last_fps_time = 0
    /\ frames_skipped = 0
    /\ clock = c
    /\ upc = "idle"
    /\ op = "none"
    /\ args = NoArgs
    /\ loc = NoLoc
    /\ ret = NoRet
    /\ epc = "idle"
    /\ cur = NoCur
    /\ hist = [synced |-> 0, slept |-> FALSE, waited |-> FALSE, stored |-> FALSE,
               signalled |-> FALSE, branch |-> 0, closed_call |-> FALSE,
               closed_wake |-> FALSE, held |-> FALSE, had |-> None, void |-> FALSE,
               quiet |-> FALSE, late |-> FALSE, owed |-> 0, consumed |-> {},
               over |-> [b \in {"char", "key", "mouse"} |-> {}], falses |-> 0,
               skips |-> {},
               inputs |-> 0, frames |-> 0, pre |-> << 0, 0, 0 >>]

Init == InitAt(StartClock)

----------------------------------------------------------------------------
(* Time *)

\* time passes between two statements
Tick ==
    /\ clock + TickNs <= ClockLimit
    /\ clock' = clock + TickNs
    /\ UNCHANGED << winVars, sigVars, msgVars, imgVars, pacerVars, userVars,
                    eventVars, hist >>

----------------------------------------------------------------------------
(* The event thread.  The window system delivers input and close events   *)
(* to an open window, one callback at a time.                             *)

\* the call in progress reads buffer b ("char", "key", "mouse"): a store
\* into b is recorded in the history of the call
Reads(b) ==
    /\ upc # "idle"
    /\ \/ b = "char" /\ op = "get_char"
       \/ b = "key" /\ op = "get_key"
       \/ b = "mouse" /\ op = "get_mouse_msg"

NoteStore(b) ==
    hist' = [hist EXCEPT !.stored = @ \/ Reads(b), !.consumed = @ \ {b}]

\* the payload new is stored in buffer b over the payload old: old is
\* overwritten unless it is empty or the call in progress has read it
NotePayload(b, old, new) ==
    hist' = [hist EXCEPT !.stored = @ \/ Reads(b), !.consumed = @ \ {b},
                 !.over[b] = IF old # None /\ old # new /\ ~(Reads(b) /\ loc.e = old)
                               THEN (@ \cup {old}) \ {new} ELSE @ \ {new}]

NoteSignal(b) == hist' = IF Reads(b) THEN [hist EXCEPT !.signalled = TRUE] ELSE hist

\* mousePressEvent, line 110: self._wait_event.set()
mousePressEvent(e) ==
    /\ epc = "idle"
    /\ is_run
    /\ hist.inputs < MaxInputs
    /\ hist' = [hist EXCEPT !.inputs = @ + 1,
                            !.signalled = @ \/ (upc # "idle" /\ op = "pause")]
    /\ wait_event' = TRUE
    /\ cur' = [e |-> e, t |-> PRESS_MESSAGE]
    /\ epc' = "mouse_413"
    /\ UNCHANGED << winVars, mouse_event, key_event, char_key_event, msgVars,
                    imgVars, pacerVars, clock, userVars >>

\* mouseReleaseEvent, line 115: enters _MouseMsg.set_event
mouseReleaseEvent(e) ==
    /\ epc = "idle"
    /\ is_run
    /\ hist.inputs < MaxInputs
    /\ hist' = [hist EXCEPT !.inputs = @ + 1]
    /\ cur' = [e |-> e, t |-> RELEASE_MESSAGE]
    /\ epc' = "mouse_413"
    /\ UNCHANGED << winVars, sigVars, msgVars, imgVars, pacerVars, clock,
                    userVars >>

\* _MouseMsg.set_event, line 413: self._mouse_event = e
MouseMsg_set_event_413 ==
    /\ epc = "mouse_413"
    /\ mouse_msg' = [mouse_msg EXCEPT !.mouse_event = cur.e]
    /\ NotePayload("mouse", mouse_msg.mouse_event, cur.e)
    /\ epc' = "mouse_414"
    /\ UNCHANGED << winVars, sigVars, key_msg, key_char_msg, imgVars, pacerVars,
                    clock, userVars, cur >>

\* _MouseMsg.set_event, line 414: self._time = time.perf_counter_ns()
MouseMsg_set_event_414 ==
    /\ epc = "mouse_414"
    /\ mouse_msg' = [mouse_msg EXCEPT !.time = clock]
    /\ NoteStore("mouse")
    /\ epc' = "mouse_415"
    /\ UNCHANGED << winVars, sigVars, key_msg, key_char_msg, imgVars, pacerVars,
                    clock, userVars, cur >>

\* _MouseMsg.set_event, line 415: self._type = _type
MouseMsg_set_event_415 ==
    /\ epc = "mouse_415"
    /\ mouse_msg' = [mouse_msg EXCEPT !.type = cur.t]
    /\ NoteStore("mouse")
    /\ epc' = "mouse_set"
    /\ UNCHANGED << winVars, sigVars, key_msg, key_char_msg, imgVars, pacerVars,
                    clock, userVars, cur >>

\* mousePressEvent line 112, mouseReleaseEvent line 116: self._mouse_event.set()
mouse_event_set ==
    /\ epc = "mouse_set"
    /\ mouse_event' = TRUE
    /\ NoteSignal("mouse")
    /\ epc' = "idle"
    /\ cur' = NoCur
    /\ UNCHANGED << winVars, wait_event, key_event, char_key_event, msgVars,
                    imgVars, pacerVars, clock, userVars >>

\* keyPressEvent, line 119: self._wait_event.set(); then the test of line 127
\* on the event object (lines 120-126, the snapshot hotkey, apply to F10 only)
keyPressEvent(e) ==
    /\ epc = "idle"
    /\ is_run
    /\ hist.inputs < MaxInputs
    /\ hist' = [hist EXCEPT !.inputs = @ + 1,
                            !.signalled = @ \/ (upc # "idle" /\ op = "pause")]
    /\ wait_event' = TRUE
    /\ cur' = [e |-> e, t |-> NO_MESSAGE]
    /\ epc' = IF IsCaptureKey(e) THEN "key_125"
              ELSE IF IsCharKey(e) THEN "char_392" ELSE "key_367"
    /\ UNCHANGED << winVars, mouse_event, key_event, char_key_event, msgVars,
                    imgVars, pacerVars, clock, userVars >>

\* keyPressEvent, line 125: self._capture_count += 1
keyPressEvent_125 ==
    /\ epc = "key_125"
    /\ capture_count' = capture_count + 1
    /\ epc' = "key_126"
    /\ UNCHANGED << winVars, sigVars, msgVars, canvas, device_image, window,
                    pacerVars, clock, userVars, cur, hist >>

\* keyPressEvent, line 126: self._canvas.save(<capture_dir>/save<N>.png),
\* its result dropped and no exception handled.  Image.save is not among
\* the sources: by the specification it is save(path) -> Result<(),
\* IoError>.  It returns (having saved, or with a failure it reports in its
\* result), or its failure is raised and leaves the handler at this line.
keyPressEvent_126 ==
    /\ epc = "key_126"
    /\ \E raised \in BOOLEAN :
          IF raised
            THEN /\ epc' = "idle"
                 /\ cur' = NoCur
            ELSE /\ epc' = IF IsCharKey(cur.e) THEN "char_392" ELSE "key_367"
                 /\ cur' = cur
    /\ UNCHANGED << winVars, sigVars, msgVars, imgVars, pacerVars, clock,
                    userVars, hist >>

\* _KeyCharMsg.set_char, line 392: self._key = key_event.text()
KeyCharMsg_set_char_392 ==
    /\ epc = "char_392"
    /\ key_char_msg' = [key_char_msg EXCEPT !.key = TextOf(cur.e)]
    /\ NotePayload("char", key_char_msg.key, TextOf(cur.e))
    /\ epc' = "char_393"
    /\ UNCHANGED << winVars, sigVars, key_msg, mouse_msg, imgVars, pacerVars,
                    clock, userVars, cur >>

\* _KeyCharMsg.set_char, line 393: self._time = time.perf_counter_ns()
KeyCharMsg_set_char_393 ==
    /\ epc = "char_393"
    /\ key_char_msg' = [key_char_msg EXCEPT !.time = clock]
    /\ NoteStore("char")
    /\ epc' = "char_130"
    /\ UNCHANGED << winVars, sigVars, key_msg, mouse_msg, imgVars, pacerVars,
                    clock, userVars, cur >>

\* keyPressEvent, line 130: self._char_key_event.set()
keyPressEvent_130 ==
    /\ epc = "char_130"
    /\ char_key_event' = TRUE
    /\ NoteSignal("char")
    /\ epc' = "key_367"
    /\ UNCHANGED << winVars, wait_event, mouse_event, key_event, msgVars,
                    imgVars, pacerVars, clock, userVars, cur >>

\* a set_event that keeps a payload not read yet (a queue of length one)
KeyMsg_set_event_367_keep ==
    /\ epc = "key_367"
    /\ key_msg' = [key_msg EXCEPT !.key_event =
                       IF @ = None THEN cur.e ELSE @]
    /\ NotePayload("key", key_msg.key_event, cur.e)
    /\ epc' = "key_368"
    /\ UNCHANGED << winVars, sigVars, key_char_msg, mouse_msg, imgVars, pacerVars,
                    clock, userVars, cur >>

\* _KeyMsg.set_event, line 367: self._key_event = key_event
KeyMsg_set_event_367 ==
    /\ epc = "key_367"
    /\ key_msg' = [key_msg EXCEPT !.key_event = cur.e]
    /\ NotePayload("key", key_msg.key_event, cur.e)
    /\ epc' = "key_368"
    /\ UNCHANGED << winVars, sigVars, key_char_msg, mouse_msg, imgVars, pacerVars,
                    clock, userVars, cur >>

\* _KeyMsg.set_event, line 368: self._time = time.perf_counter_ns()
KeyMsg_set_event_368 ==
    /\ epc = "key_368"
    /\ key_msg' = [key_msg EXCEPT !.time = clock]
    /\ NoteStore("key")
    /\ epc' = "key_132"
    /\ UNCHANGED << winVars, sigVars, key_char_msg, mouse_msg, imgVars, pacerVars,
                    clock, userVars, cur >>

\* keyPressEvent, line 132: self._key_event.set()
keyPressEvent_132 ==
    /\ epc = "key_132"
    /\ key_event' = TRUE
    /\ NoteSignal("key")
    /\ epc' = "idle"
    /\ cur' = NoCur
    /\ UNCHANGED << winVars, wait_event, mouse_event, char_key_event, msgVars,
                    imgVars, pacerVars, clock, userVars >>

\* closeEvent, line 145: self._is_run = False
closeEvent ==
    /\ epc = "idle"
    /\ is_run
    /\ is_run' = FALSE
    /\ epc' = "close_146"
    /\ UNCHANGED << immediate, sigVars, msgVars, imgVars, pacerVars, clock,
                    userVars, cur, hist >>

\* closeEvent, line 146: self._wait_event.set()
closeEvent_146 ==
    /\ epc = "close_146"
    /\ wait_event' = TRUE
    /\ epc' = "close_147"
    /\ UNCHANGED << winVars, mouse_event, key_event, char_key_event, msgVars,
                    imgVars, pacerVars, clock, userVars, cur, hist >>

\* closeEvent, line 147: self._mouse_event.set()
closeEvent_147 ==
    /\ epc = "close_147"
    /\ mouse_event' = TRUE
    /\ epc' = "close_148"
    /\ UNCHANGED << winVars, wait_event, key_event, char_key_event, msgVars,
                    imgVars, pacerVars, clock, userVars, cur, hist >>

\* closeEvent, line 148: self._key_event.set()
closeEvent_148 ==
    /\ epc = "close_148"
    /\ key_event' = TRUE
    /\ epc' = "close_149"
    /\ UNCHANGED << winVars, wait_event, mouse_event, char_key_event, msgVars,
                    imgVars, pacerVars, clock, userVars, cur, hist >>

\* closeEvent, line 149: self._char_key_event.set()
closeEvent_149 ==
    /\ epc = "close_149"
    /\ char_key_event' = TRUE
    /\ epc' = "idle"
    /\ UNCHANGED << winVars, wait_event, mouse_event, key_event, msgVars,
                    imgVars, pacerVars, clock, userVars, cur, hist >>

----------------------------------------------------------------------------
(* The user-logic thread: calls *)

\* a closed-window test that never sees the window closed
WindowClosed_never == FALSE

\* lines 138, 171, 188, 212, 254, 275, 299: if not self._is_run
WindowClosed == ~is_run

\* the caller invokes operation o with arguments a
Call(o, a) ==
    /\ upc = "idle"
    /\ op' = o
    /\ args' = a

\* the history of a new input call
NewInput(h) == [NewCall(h) EXCEPT !.inputs = @ + 1]

\* the history of a get_* call that reads the clock and syncs, its buffer b
\* holding payload since time
AtRead(h, b, time, payload) ==
    [h EXCEPT !.synced = @ + 1,
              !.held = Fresh(time, payload, clock),
              !.had = payload,
              !.void = b \in h.consumed,
              !.quiet = epc = "idle"]

\* the history of a get_* call that reads the payload p of its buffer b
AtPayload(h, b, p) == [h EXCEPT !.late = p \in h.over[b]]

\* the call in progress goes on with the statement at pc
Goto(pc) ==
    /\ upc' = pc
    /\ ret' = NoRet

\* Image.draw_to_device(device): what the canvas paints on the device it is
\* given, the whole of its content over whatever the device held
\* (easygraphics.image is not among the sources; the specification's
\* paint(targetSurface) of the render surface)
Image_draw_to_device == canvas

\* the call in progress returns (or raises) r;
\* its locals die with it
Leave(r) ==
    /\ upc' = "idle"
    /\ ret' = r
    /\ loc' = NoLoc

\* real_update, lines 160-161: the device image is synced with the canvas
\* (and a repaint is requested)
real_update ==
    /\ device_image' = Image_draw_to_device
    /\ canvas' = canvas
    /\ UNCHANGED << window, capture_count >>

----------------------------------------------------------------------------
(* pause *)

\* pause, lines 138-140: if not self._is_run: return; self.real_update()
call_pause ==
    /\ Call("pause", NoArgs)
    /\ hist.inputs < MaxInputs
    /\ IF WindowClosed
         THEN /\ Leave(Returns(PyNone))
              /\ hist' = [NewInput(hist) EXCEPT !.branch = 139]
              /\ UNCHANGED imgVars
         ELSE /\ Goto("pause_141")
              /\ loc' = NoLoc
              /\ real_update
              /\ hist' = [NewInput(hist) EXCEPT !.synced = 1]
    /\ UNCHANGED << winVars, sigVars, msgVars, pacerVars, clock, eventVars >>

\* a pause that does not re-arm its signal
pause_141_no_clear ==
    /\ upc = "pause_141"
    /\ wait_event' = wait_event
    /\ hist' = [hist EXCEPT !.waited = TRUE, !.signalled = FALSE]
    /\ upc' = "pause_142"
    /\ UNCHANGED << winVars, mouse_event, key_event, char_key_event, msgVars,
                    imgVars, pacerVars, clock, op, args, loc, ret, eventVars >>

\* pause, line 141: self._wait_event.clear()
\* (what was signalled before is erased with the flag)
pause_141 ==
    /\ upc = "pause_141"
    /\ wait_event' = FALSE
    /\ hist' = [hist EXCEPT !.waited = TRUE, !.signalled = FALSE]
    /\ upc' = "pause_142"
    /\ UNCHANGED << winVars, mouse_event, key_event, char_key_event, msgVars,
                    imgVars, pacerVars, clock, op, args, loc, ret, eventVars >>

\* pause, line 142: self._wait_event.wait()
pause_142 ==
    /\ upc = "pause_142"
    /\ wait_event
    /\ Leave(Returns(PyNone))
    /\ hist' = [hist EXCEPT !.branch = 142, !.closed_wake = ~is_run]
    /\ UNCHANGED << winVars, sigVars, msgVars, imgVars, pacerVars, clock,
                    op, args, eventVars >>

----------------------------------------------------------------------------
(* get_char *)

\* get_char, lines 254-255: if not self._is_run: return ' '
call_get_char ==
    /\ Call("get_char", NoArgs)
    /\ hist.inputs < MaxInputs
    /\ IF WindowClosed
         THEN /\ Leave(Returns(<< SPACE >>))
              /\ hist' = [NewInput(hist) EXCEPT !.branch = 255]
         ELSE /\ Goto("get_char_256")
              /\ loc' = NoLoc
              /\ hist' = NewInput(hist)
    /\ UNCHANGED << winVars, sigVars, msgVars, imgVars, pacerVars, clock, eventVars >>

\* get_char, lines 256-257: nt = time.perf_counter_ns(); self.real_update()
get_char_256 ==
    /\ upc = "get_char_256"
    /\ loc' = [loc EXCEPT !.nt = clock]
    /\ real_update
    /\ hist' = AtRead(hist, "char", key_char_msg.time, key_char_msg.key)
    /\ upc' = "get_char_258"
    /\ UNCHANGED << winVars, sigVars, msgVars, pacerVars, clock, op, args, ret,
                    eventVars >>

\* get_char, line 258: if nt - self._key_char_msg.get_time() > 100000000
get_char_258 ==
    /\ upc = "get_char_258"
    /\ upc' = IF loc.nt - key_char_msg.time > FRESH_NS
                THEN "get_char_260" ELSE "get_char_262"
    /\ UNCHANGED << winVars, sigVars, msgVars, imgVars, pacerVars, clock,
                    op, args, loc, ret, eventVars, hist >>

\* get_char, line 260: self._char_key_event.clear()
get_char_260 ==
    /\ upc = "get_char_260"
    /\ char_key_event' = FALSE
    /\ hist' = [hist EXCEPT !.waited = TRUE]
    /\ upc' = "get_char_261"
    /\ UNCHANGED << winVars, wait_event, mouse_event, key_event, msgVars,
                    imgVars, pacerVars, clock, op, args, loc, ret, eventVars >>

\* get_char, line 261: self._char_key_event.wait()
get_char_261 ==
    /\ upc = "get_char_261"
    /\ char_key_event
    /\ hist' = [hist EXCEPT !.closed_wake = ~is_run]
    /\ upc' = "get_char_262"
    /\ UNCHANGED << winVars, sigVars, msgVars, imgVars, pacerVars, clock,
                    op, args, loc, ret, eventVars >>

\* get_char, line 262: ch = self._key_char_msg.get_char()
get_char_262 ==
    /\ upc = "get_char_262"
    /\ loc' = [loc EXCEPT !.e = key_char_msg.key]
    /\ hist' = AtPayload(hist, "char", key_char_msg.key)
    /\ upc' = "get_char_402"
    /\ UNCHANGED << winVars, sigVars, msgVars, imgVars, pacerVars, clock,
                    op, args, ret, eventVars >>

\* get_char, line 263, in _KeyCharMsg.reset, line 402: self._time = 0
KeyCharMsg_reset_402 ==
    /\ upc = "get_char_402"
    /\ key_char_msg' = [key_char_msg EXCEPT !.time = 0]
    /\ upc' = "get_char_403"
    /\ UNCHANGED << winVars, sigVars, key_msg, mouse_msg, imgVars, pacerVars,
                    clock, op, args, loc, ret, eventVars, hist >>

\* _KeyCharMsg.reset, line 403: self._key = None; get_char, line 264: return ch
KeyCharMsg_reset_403 ==
    /\ upc = "get_char_403"
    /\ key_char_msg' = [key_char_msg EXCEPT !.key = None]
    /\ Leave(Returns(<< loc.e >>))
    /\ hist' = [hist EXCEPT !.branch = 264, !.consumed = @ \cup {"char"}]
    /\ UNCHANGED << winVars, sigVars, key_msg, mouse_msg, imgVars, pacerVars,
                    clock, op, args, eventVars >>

----------------------------------------------------------------------------
(* get_key *)

\* get_key, lines 275-276: if not self._is_run: return Key_Escape, NoModifier
call_get_key ==
    /\ Call("get_key", NoArgs)
    /\ hist.inputs < MaxInputs
    /\ IF WindowClosed
         THEN /\ Leave(Returns(<< Key_Escape, NoModifier >>))
              /\ hist' = [NewInput(hist) EXCEPT !.branch = 276]
         ELSE /\ Goto("get_key_277")
              /\ loc' = NoLoc
              /\ hist' = NewInput(hist)
    /\ UNCHANGED << winVars, sigVars, msgVars, imgVars, pacerVars, clock, eventVars >>

\* get_key, lines 277-278: nt = time.perf_counter_ns(); self.real_update()
get_key_277 ==
    /\ upc = "get_key_277"
    /\ loc' = [loc EXCEPT !.nt = clock]
    /\ real_update
    /\ hist' = AtRead(hist, "key", key_msg.time, key_msg.key_event)
    /\ upc' = "get_key_279"
    /\ UNCHANGED << winVars, sigVars, msgVars, pacerVars, clock, op, args, ret,
                    eventVars >>

\* get_key, line 279: if nt - self._key_msg.get_time() > 100000000
get_key_279 ==
    /\ upc = "get_key_279"
    /\ upc' = IF loc.nt - key_msg.time > FRESH_NS
                THEN "get_key_281" ELSE "get_key_283"
    /\ UNCHANGED << winVars, sigVars, msgVars, imgVars, pacerVars, clock,
                    op, args, loc, ret, eventVars, hist >>

\* get_key, line 281: self._key_event.clear()
get_key_281 ==
    /\ upc = "get_key_281"
    /\ key_event' = FALSE
    /\ hist' = [hist EXCEPT !.waited = TRUE]
    /\ upc' = "get_key_282"
    /\ UNCHANGED << winVars, wait_event, mouse_event, char_key_event, msgVars,
                    imgVars, pacerVars, clock, op, args, loc, ret, eventVars >>

\* get_key, line 282: self._key_event.wait()
get_key_282 ==
    /\ upc = "get_key_282"
    /\ key_event
    /\ hist' = [hist EXCEPT !.closed_wake = ~is_run]
    /\ upc' = "get_key_283"
    /\ UNCHANGED << winVars, sigVars, msgVars, imgVars, pacerVars, clock,
                    op, args, loc, ret, eventVars >>

\* get_key, lines 283-285: e = self._key_msg.get_event();
\* if e is None: return Key_Escape, NoModifier
get_key_283 ==
    /\ upc = "get_key_283"
    /\ IF key_msg.key_event = None
         THEN /\ Leave(Returns(<< Key_Escape, NoModifier >>))
              /\ hist' = [hist EXCEPT !.branch = 285]
         ELSE /\ loc' = [loc EXCEPT !.e = key_msg.key_event]
              /\ hist' = AtPayload(hist, "key", key_msg.key_event)
              /\ upc' = "get_key_377"
              /\ UNCHANGED ret
    /\ UNCHANGED << winVars, sigVars, msgVars, imgVars, pacerVars, clock,
                    op, args, eventVars >>

\* get_key, line 286, in _KeyMsg.reset, line 377: self._time = 0
KeyMsg_reset_377 ==
    /\ upc = "get_key_377"
    /\ key_msg' = [key_msg EXCEPT !.time = 0]
    /\ upc' = "get_key_378"
    /\ UNCHANGED << winVars, sigVars, key_char_msg, mouse_msg, imgVars, pacerVars,
                    clock, op, args, loc, ret, eventVars, hist >>

\* _KeyMsg.reset, line 378: self._key_event = None;
\* get_key, line 287: return e.key(), e.modifiers()
KeyMsg_reset_378 ==
    /\ upc = "get_key_378"
    /\ key_msg' = [key_msg EXCEPT !.key_event = None]
    /\ Leave(Returns(<< KeyOf(loc.e), ModifiersOf(loc.e) >>))
    /\ hist' = [hist EXCEPT !.branch = 287, !.consumed = @ \cup {"key"}]
    /\ UNCHANGED << winVars, sigVars, key_char_msg, mouse_msg, imgVars, pacerVars,
                    clock, op, args, eventVars >>

----------------------------------------------------------------------------
(* get_mouse_msg *)

\* get_mouse_msg, lines 299-300: if not self._is_run: return 0, 0, 0, NoButton
call_get_mouse_msg ==
    /\ Call("get_mouse_msg", NoArgs)
    /\ hist.inputs < MaxInputs
    /\ IF WindowClosed
         THEN /\ Leave(Returns(<< 0, 0, 0, NoButton >>))
              /\ hist' = [NewInput(hist) EXCEPT !.branch = 300]
         ELSE /\ Goto("get_mouse_msg_301")
              /\ loc' = NoLoc
              /\ hist' = NewInput(hist)
    /\ UNCHANGED << winVars, sigVars, msgVars, imgVars, pacerVars, clock, eventVars >>

\* get_mouse_msg, lines 301-302: nt = time.perf_counter_ns(); self.real_update()
get_mouse_msg_301 ==
    /\ upc = "get_mouse_msg_301"
    /\ loc' = [loc EXCEPT !.nt = clock]
    /\ real_update
    /\ hist' = AtRead(hist, "mouse", mouse_msg.time, mouse_msg.mouse_event)
    /\ upc' = "get_mouse_msg_303"
    /\ UNCHANGED << winVars, sigVars, msgVars, pacerVars, clock, op, args, ret,
                    eventVars >>

\* get_mouse_msg, line 303: if nt - self._mouse_msg.get_time() > 100000000
get_mouse_msg_303 ==
    /\ upc = "get_mouse_msg_303"
    /\ upc' = IF loc.nt - mouse_msg.time > FRESH_NS
                THEN "get_mouse_msg_305" ELSE "get_mouse_msg_307"
    /\ UNCHANGED << winVars, sigVars, msgVars, imgVars, pacerVars, clock,
                    op, args, loc, ret, eventVars, hist >>

\* get_mouse_msg, line 305: self._mouse_event.clear()
get_mouse_msg_305 ==
    /\ upc = "get_mouse_msg_305"
    /\ mouse_event' = FALSE
    /\ hist' = [hist EXCEPT !.waited = TRUE]
    /\ upc' = "get_mouse_msg_306"
    /\ UNCHANGED << winVars, wait_event, key_event, char_key_event, msgVars,
                    imgVars, pacerVars, clock, op, args, loc, ret, eventVars >>

\* get_mouse_msg, line 306: self._mouse_event.wait()
get_mouse_msg_306 ==
    /\ upc = "get_mouse_msg_306"
    /\ mouse_event
    /\ hist' = [hist EXCEPT !.closed_wake = ~is_run]
    /\ upc' = "get_mouse_msg_307"
    /\ UNCHANGED << winVars, sigVars, msgVars, imgVars, pacerVars, clock,
                    op, args, loc, ret, eventVars >>

\* get_mouse_msg, lines 307-309: e = self._mouse_msg.get_event();
\* if e is None: return 0, 0, 0, NoButton
get_mouse_msg_307 ==
    /\ upc = "get_mouse_msg_307"
    /\ IF mouse_msg.mouse_event = None
         THEN /\ Leave(Returns(<< 0, 0, 0, NoButton >>))
              /\ hist' = [hist EXCEPT !.branch = 309]
         ELSE /\ loc' = [loc EXCEPT !.e = mouse_msg.mouse_event]
              /\ hist' = AtPayload(hist, "mouse", mouse_msg.mouse_event)
              /\ upc' = "get_mouse_msg_310"
              /\ UNCHANGED ret
    /\ UNCHANGED << winVars, sigVars, msgVars, imgVars, pacerVars, clock,
                    op, args, eventVars >>

\* get_mouse_msg, line 310: _type = self._mouse_msg.get_type()
get_mouse_msg_310 ==
    /\ upc = "get_mouse_msg_310"
    /\ loc' = [loc EXCEPT !.t = mouse_msg.type]
    /\ upc' = "get_mouse_msg_427"
    /\ UNCHANGED << winVars, sigVars, msgVars, imgVars, pacerVars, clock,
                    op, args, ret, eventVars, hist >>

\* get_mouse_msg, line 311, in _MouseMsg.reset, line 427: self._time = 0
MouseMsg_reset_427 ==
    /\ upc = "get_mouse_msg_427"
    /\ mouse_msg' = [mouse_msg EXCEPT !.time = 0]
    /\ upc' = "get_mouse_msg_428"
    /\ UNCHANGED << winVars, sigVars, key_msg, key_char_msg, imgVars, pacerVars,
                    clock, op, args, loc, ret, eventVars, hist >>

\* _MouseMsg.reset, line 428: self._mouse_event = None
MouseMsg_reset_428 ==
    /\ upc = "get_mouse_msg_428"
    /\ mouse_msg' = [mouse_msg EXCEPT !.mouse_event = None]
    /\ upc' = "get_mouse_msg_429"
    /\ UNCHANGED << winVars, sigVars, key_msg, key_char_msg, imgVars, pacerVars,
                    clock, op, args, loc, ret, eventVars, hist >>

\* _MouseMsg.reset, line 429: self._type = MouseMessageType.NO_MESSAGE;
\* get_mouse_msg, line 312: return e.x(), e.y(), _type, e.button()
MouseMsg_reset_429 ==
    /\ upc = "get_mouse_msg_429"
    /\ mouse_msg' = [mouse_msg EXCEPT !.type = NO_MESSAGE]
    /\ Leave(Returns(<< XOf(loc.e), YOf(loc.e), loc.t, ButtonOf(loc.e) >>))
    /\ hist' = [hist EXCEPT !.branch = 312, !.consumed = @ \cup {"mouse"}]
    /\ UNCHANGED << winVars, sigVars, key_msg, key_char_msg, imgVars, pacerVars,
                    clock, op, args, eventVars >>

----------------------------------------------------------------------------
(* The window with its input operations: the event thread against the *)
(* user-logic thread's pause and get_* calls.                         *)

EventThread ==
    \/ \E e \in PressEvents : mousePressEvent(e)
    \/ \E e \in ReleaseEvents : mouseReleaseEvent(e)
    \/ MouseMsg_set_event_413
    \/ MouseMsg_set_event_414
    \/ MouseMsg_set_event_415
    \/ mouse_event_set
    \/ \E e \in KeyEvents : keyPressEvent(e)
    \/ KeyCharMsg_set_char_392
    \/ KeyCharMsg_set_char_393
    \/ keyPressEvent_130
    \/ KeyMsg_set_event_367
    \/ KeyMsg_set_event_368
    \/ keyPressEvent_132
    \/ closeEvent
    \/ closeEvent_146
    \/ closeEvent_147
    \/ closeEvent_148
    \/ closeEvent_149

InputCalls ==
    \/ call_pause
    \/ pause_141
    \/ pause_142
    \/ call_get_char
    \/ get_char_256
    \/ get_char_258
    \/ get_char_260
    \/ get_char_261
    \/ get_char_262
    \/ KeyCharMsg_reset_402
    \/ KeyCharMsg_reset_403
    \/ call_get_key
    \/ get_key_277
    \/ get_key_279
    \/ get_key_281
    \/ get_key_282
    \/ get_key_283
    \/ KeyMsg_reset_377
    \/ KeyMsg_reset_378
    \/ call_get_mouse_msg
    \/ get_mouse_msg_301
    \/ get_mouse_msg_303
    \/ get_mouse_msg_305
    \/ get_mouse_msg_306
    \/ get_mouse_msg_307
    \/ get_mouse_msg_310
    \/ MouseMsg_reset_427
    \/ MouseMsg_reset_428
    \/ MouseMsg_reset_429

NextInput == EventThread \/ InputCalls \/ Tick

SpecInput == Init /\ [][NextInput]_vars

----------------------------------------------------------------------------
(* The freshness probes has_kb_hit, has_kb_msg, has_mouse_msg *)

\* has_kb_hit, line 322: nt = time.perf_counter_ns()
call_has_kb_hit ==
    /\ Call("has_kb_hit", NoArgs)
    /\ hist.inputs < MaxInputs
    /\ Goto("has_kb_hit_323")
    /\ loc' = [NoLoc EXCEPT !.nt = clock]
    /\ hist' = NewInput(hist)
    /\ UNCHANGED << winVars, sigVars, msgVars, imgVars, pacerVars, clock, eventVars >>

\* has_kb_hit, line 323:
\* return nt - self._key_char_msg.get_time() <= 100000000
has_kb_hit_323 ==
    /\ upc = "has_kb_hit_323"
    /\ Leave(Returns(IF loc.nt - key_char_msg.time <= FRESH_NS
                       THEN PyTrue ELSE PyFalse))
    /\ hist' = [hist EXCEPT !.branch = 323,
                    !.held = Fresh(key_char_msg.time, key_char_msg.key, loc.nt)]
    /\ UNCHANGED << winVars, sigVars, msgVars, imgVars, pacerVars, clock, op, args,
                    eventVars >>

\* has_kb_msg, line 333: nt = time.perf_counter_ns()
call_has_kb_msg ==
    /\ Call("has_kb_msg", NoArgs)
    /\ hist.inputs < MaxInputs
    /\ Goto("has_kb_msg_334")
    /\ loc' = [NoLoc EXCEPT !.nt = clock]
    /\ hist' = NewInput(hist)
    /\ UNCHANGED << winVars, sigVars, msgVars, imgVars, pacerVars, clock, eventVars >>

\* has_kb_msg, line 334:
\* return nt - self._key_char_msg.get_time() <= 100000000
\* (the history records the key buffer, the one get_key reads)
has_kb_msg_334 ==
    /\ upc = "has_kb_msg_334"
    /\ Leave(Returns(IF loc.nt - key_char_msg.time <= FRESH_NS
                       THEN PyTrue ELSE PyFalse))
    /\ hist' = [hist EXCEPT !.branch = 334,
                    !.held = Fresh(key_msg.time, key_msg.key_event, loc.nt)]
    /\ UNCHANGED << winVars, sigVars, msgVars, imgVars, pacerVars, clock, op, args,
                    eventVars >>

\* has_mouse_msg, line 344: nt = time.perf_counter_ns()
call_has_mouse_msg ==
    /\ Call("has_mouse_msg", NoArgs)
    /\ hist.inputs < MaxInputs
    /\ Goto("has_mouse_msg_345")
    /\ loc' = [NoLoc EXCEPT !.nt = clock]
    /\ hist' = NewInput(hist)
    /\ UNCHANGED << winVars, sigVars, msgVars, imgVars, pacerVars, clock, eventVars >>

\* has_mouse_msg, line 345:
\* return nt - self._mouse_msg.get_time() <= 100000000
has_mouse_msg_345 ==
    /\ upc = "has_mouse_msg_345"
    /\ Leave(Returns(IF loc.nt - mouse_msg.time <= FRESH_NS
                       THEN PyTrue ELSE PyFalse))
    /\ hist' = [hist EXCEPT !.branch = 345,
                    !.held = Fresh(mouse_msg.time, mouse_msg.mouse_event, loc.nt)]
    /\ UNCHANGED << winVars, sigVars, msgVars, imgVars, pacerVars, clock, op, args,
                    eventVars >>

ProbeCalls ==
    \/ call_has_kb_hit
    \/ has_kb_hit_323
    \/ call_has_kb_msg
    \/ has_kb_msg_334
    \/ call_has_mouse_msg
    \/ has_mouse_msg_345

NextProbe == NextInput \/ ProbeCalls

\* time.perf_counter_ns() has an undefined reference point: the window may
\* be constructed when it reads zero (a counter that starts with the
\* process) or any later value
InitProbe == \E c \in {ClockZero, StartClock} : InitAt(c)

SpecProbe == InitProbe /\ [][NextProbe]_vars

----------------------------------------------------------------------------
(* The render mode and the canvas *)

\* the history of a new call of set_immediate or of a delay operation
NewFrame(h) == [NewCall(h) EXCEPT !.frames = @ + 1,
                    !.pre = << frames_to_skip_count, frames_skipped, last_fps_time >>]

\* the history of a new pacing call other than delay_jfps: it ends the run of
\* consecutive delay_jfps calls
NewOther(h) == [NewFrame(h) EXCEPT !.falses = 0]

\* a mode test that lets the immediate mode pass
InvalidMode_never == FALSE

\* lines 169, 186, 210: if self._immediate: raise RuntimeError(...)
InvalidMode == immediate

\* set_immediate, lines 91-95
set_immediate(b) ==
    /\ Call("set_immediate", NoArgs)
    /\ hist.frames < MaxFrames
    /\ immediate' = b
    /\ Leave(Returns(PyNone))
    /\ hist' = [NewOther(hist) EXCEPT !.branch = 95]
    /\ UNCHANGED << is_run, sigVars, msgVars, imgVars, pacerVars, clock, eventVars >>

\* the user program draws on the canvas (get_canvas, line 67, and the
\* drawing operations of Image)
Draw ==
    /\ upc = "idle"
    /\ canvas < MaxDraw
    /\ canvas' = canvas + 1
    /\ UNCHANGED << winVars, sigVars, msgVars, device_image, window,
                    capture_count, pacerVars, clock, userVars, eventVars, hist >>

\* time passes while the user program computes a frame
Elapse ==
    /\ clock + TickNs <= FrameClockLimit
    /\ clock' = clock + TickNs
    /\ UNCHANGED << winVars, sigVars, msgVars, imgVars, pacerVars, userVars,
                    eventVars, hist >>

\* QtCore.QThread.usleep(us): the thread sleeps us microseconds
usleep(us) ==
    /\ clock + us * 1000 <= FrameClockLimit
    /\ clock' = clock + us * 1000

----------------------------------------------------------------------------
(* delay *)

\* delay, lines 169-172: RuntimeError in immediate mode; return when closed
call_delay(ms) ==
    /\ Call("delay", [NoArgs EXCEPT !.milliseconds = ms])
    /\ hist.frames < MaxFrames
    /\ IF InvalidMode
         THEN /\ Leave(RaisesRuntimeError)
              /\ hist' = [NewOther(hist) EXCEPT !.branch = 170]
         ELSE IF WindowClosed
         THEN /\ Leave(Returns(PyNone))
              /\ hist' = [NewOther(hist) EXCEPT !.branch = 172]
         ELSE /\ Goto("delay_173")
              /\ loc' = NoLoc
              /\ hist' = NewOther(hist)
    /\ UNCHANGED << winVars, sigVars, msgVars, imgVars, pacerVars, clock, eventVars >>

\* delay, lines 173-175: self.real_update();
\* start_wait_time = time.perf_counter_ns()
delay_173 ==
    /\ upc = "delay_173"
    /\ real_update
    /\ hist' = [hist EXCEPT !.synced = @ + 1]
    /\ loc' = [loc EXCEPT !.nt = clock]
    /\ upc' = "delay_176"
    /\ UNCHANGED << winVars, sigVars, msgVars, pacerVars, clock, op, args, ret,
                    eventVars >>

\* delay, line 176: if time.perf_counter_ns() - start_wait_time < nanotime
delay_176 ==
    /\ upc = "delay_176"
    /\ IF clock - loc.nt < args.milliseconds * NS_PER_MS
         THEN /\ upc' = "delay_177"
              /\ UNCHANGED << loc, ret, hist >>
         ELSE /\ Leave(Returns(PyNone))
              /\ hist' = [hist EXCEPT !.branch = 176]
    /\ UNCHANGED << winVars, sigVars, msgVars, imgVars, pacerVars, clock, op, args,
                    eventVars >>

\* delay, line 177: QThread.usleep((start_wait_time + nanotime
\*                                  - time.perf_counter_ns()) // 1000);
\* a negative argument does not fit usleep's unsigned long
delay_177 ==
    /\ upc = "delay_177"
    /\ LET us == (loc.nt + args.milliseconds * NS_PER_MS - clock) \div 1000
       IN  IF us < 0
             THEN /\ Leave(RaisesOverflowError)
                  /\ hist' = [hist EXCEPT !.branch = 177]
                  /\ UNCHANGED clock
             ELSE /\ usleep(us)
                  /\ Leave(Returns(PyNone))
                  /\ hist' = [hist EXCEPT !.branch = 177, !.slept = TRUE]
    /\ UNCHANGED << winVars, sigVars, msgVars, imgVars, pacerVars, op, args,
                    eventVars >>

----------------------------------------------------------------------------
(* delay_fps *)

\* nanotime = 1000000000 // fps   (lines 190, 214)
nanotime == NS_PER_S \div args.fps

\* delay_fps, lines 186-189: RuntimeError in immediate mode; False when closed
call_delay_fps(fps) ==
    /\ Call("delay_fps", [NoArgs EXCEPT !.fps = fps])
    /\ hist.frames < MaxFrames
    /\ IF InvalidMode
         THEN /\ Leave(RaisesRuntimeError)
              /\ hist' = [NewOther(hist) EXCEPT !.branch = 187]
         ELSE IF WindowClosed
         THEN /\ Leave(Returns(PyFalse))
              /\ hist' = [NewOther(hist) EXCEPT !.branch = 189]
         ELSE /\ Goto("delay_fps_191")
              /\ loc' = NoLoc
              /\ hist' = NewOther(hist)
    /\ UNCHANGED << winVars, sigVars, msgVars, imgVars, pacerVars, clock, eventVars >>

\* delay_fps that seeds the last frame time and forgets the real_update
delay_fps_191_no_update ==
    /\ upc = "delay_fps_191"
    /\ last_fps_time' = IF last_fps_time = 0 THEN clock ELSE last_fps_time
    /\ upc' = "delay_fps_194"
    /\ UNCHANGED << winVars, sigVars, msgVars, imgVars, frames_to_skip_count,
                    frames_skipped, clock, op, args, loc, ret, eventVars, hist >>

\* delay_fps, lines 191-193: if self._last_fps_time == 0:
\* self._last_fps_time = time.perf_counter_ns(); self.real_update()
delay_fps_191 ==
    /\ upc = "delay_fps_191"
    /\ last_fps_time' = IF last_fps_time = 0 THEN clock ELSE last_fps_time
    /\ real_update
    /\ hist' = [hist EXCEPT !.synced = @ + 1]
    /\ upc' = "delay_fps_194"
    /\ UNCHANGED << winVars, sigVars, msgVars, frames_to_skip_count, frames_skipped,
                    clock, op, args, loc, ret, eventVars >>

\* delay_fps, lines 194-196: tt = time.perf_counter_ns();
\* if tt - self._last_fps_time < nanotime:
\*     QThread.usleep((self._last_fps_time + nanotime - tt) // 1000)
delay_fps_194 ==
    /\ upc = "delay_fps_194"
    /\ IF clock - last_fps_time < nanotime
         THEN /\ usleep((last_fps_time + nanotime - clock) \div 1000)
              /\ hist' = [hist EXCEPT !.slept = TRUE]
         ELSE UNCHANGED << clock, hist >>
    /\ upc' = "delay_fps_197"
    /\ UNCHANGED << winVars, sigVars, msgVars, imgVars, pacerVars, op, args, loc,
                    ret, eventVars >>

\* delay_fps, lines 197-198: self._last_fps_time = time.perf_counter_ns();
\* return True
delay_fps_197 ==
    /\ upc = "delay_fps_197"
    /\ last_fps_time' = clock
    /\ Leave(Returns(PyTrue))
    /\ hist' = [hist EXCEPT !.branch = 198]
    /\ UNCHANGED << winVars, sigVars, msgVars, imgVars, frames_to_skip_count,
                    frames_skipped, clock, op, args, eventVars >>

----------------------------------------------------------------------------
(* delay_jfps *)

\* a call of delay_jfps on an open window in manual mode returns False
\* (the run of False returns is counted up to MaxFalses)
SkipFrame(h) == [h EXCEPT !.falses = IF @ < MaxFalses THEN @ + 1 ELSE @]
\* ... returns True
ShowFrame(h) == [h EXCEPT !.falses = 0]

\* a test of the tally that lets every tally pass
MaySkip_always == TRUE

\* line 224: if self._frames_skipped <= max_skip_count
MaySkip == frames_skipped <= args.max_skip_count

\* delay_jfps, lines 210-213: RuntimeError in immediate mode; False when closed
call_delay_jfps(fps, max_skip_count) ==
    /\ Call("delay_jfps", [NoArgs EXCEPT !.fps = fps,
                                         !.max_skip_count = max_skip_count])
    /\ hist.frames < MaxFrames
    /\ IF InvalidMode
         THEN /\ Leave(RaisesRuntimeError)
              /\ hist' = [NewFrame(hist) EXCEPT !.branch = 211]
         ELSE IF WindowClosed
         THEN /\ Leave(Returns(PyFalse))
              /\ hist' = [NewFrame(hist) EXCEPT !.branch = 213]
         ELSE /\ Goto("delay_jfps_215")
              /\ loc' = NoLoc
              /\ hist' = [NewFrame(hist) EXCEPT !.skips = @ \cup {max_skip_count}]
    /\ UNCHANGED << winVars, sigVars, msgVars, imgVars, pacerVars, clock, eventVars >>

\* delay_jfps that consumes a pending skip and reports the frame as shown
delay_jfps_215_true ==
    /\ upc = "delay_jfps_215"
    /\ IF frames_to_skip_count > 0
         THEN /\ frames_to_skip_count' = frames_to_skip_count - 1
              /\ frames_skipped' = frames_skipped + 1
              /\ Leave(Returns(PyTrue))
              /\ hist' = [ShowFrame(hist) EXCEPT !.branch = 218]
              /\ UNCHANGED last_fps_time
         ELSE /\ last_fps_time' = IF last_fps_time = 0 THEN clock ELSE last_fps_time
              /\ upc' = "delay_jfps_222"
              /\ UNCHANGED << frames_to_skip_count, frames_skipped, loc, ret, hist >>
    /\ UNCHANGED << winVars, sigVars, msgVars, imgVars, clock, op, args, eventVars >>

\* delay_jfps, lines 215-220: a pending skip is consumed (return False);
\* else if self._last_fps_time == 0: self._last_fps_time = perf_counter_ns()
delay_jfps_215 ==
    /\ upc = "delay_jfps_215"
    /\ IF frames_to_skip_count > 0
         THEN /\ frames_to_skip_count' = frames_to_skip_count - 1
              /\ frames_skipped' = frames_skipped + 1
              /\ Leave(Returns(PyFalse))
              /\ hist' = [SkipFrame(hist) EXCEPT !.branch = 218]
              /\ UNCHANGED last_fps_time
         ELSE /\ last_fps_time' = IF last_fps_time = 0 THEN clock ELSE last_fps_time
              /\ upc' = "delay_jfps_222"
              /\ UNCHANGED << frames_to_skip_count, frames_skipped, loc, ret, hist >>
    /\ UNCHANGED << winVars, sigVars, msgVars, imgVars, clock, op, args, eventVars >>

\* delay_jfps that shows the late frame and schedules one skip less than
\* the frames owed
delay_jfps_222_short ==
    /\ upc = "delay_jfps_222"
    /\ LET nowtime == clock
           behind  == last_fps_time + nanotime < nowtime
           owed    == (nowtime - last_fps_time) \div nanotime
           budget  == args.max_skip_count - frames_skipped
           seen    == [hist EXCEPT !.owed = IF behind THEN owed ELSE 0]
       IN  IF behind /\ MaySkip /\ args.max_skip_count <= 0
             THEN /\ frames_to_skip_count' = owed - 1
                  /\ upc' = "delay_jfps_229"
                  /\ hist' = seen
                  /\ UNCHANGED << frames_skipped, imgVars >>
           ELSE IF behind /\ MaySkip /\ owed > budget
             THEN /\ frames_to_skip_count' = budget - 1
                  /\ frames_skipped' = frames_skipped + 1
                  /\ upc' = "delay_jfps_234"
                  /\ hist' = seen
                  /\ UNCHANGED imgVars
           ELSE /\ frames_to_skip_count' = IF behind /\ MaySkip THEN owed - 1
                                           ELSE frames_to_skip_count
                /\ frames_skipped' = IF behind /\ ~MaySkip THEN 0 ELSE frames_skipped
                /\ real_update
                /\ hist' = [seen EXCEPT !.synced = @ + 1]
                /\ upc' = "delay_jfps_239"
    /\ UNCHANGED << winVars, sigVars, msgVars, last_fps_time, clock, op, args, loc,
                    ret, eventVars >>

\* delay_jfps, lines 222-238: nowtime = time.perf_counter_ns(); behind
\* schedule, the frame is skipped (on to line 229 or 234) or the tally is
\* reset; else, and when the frame is shown, self.real_update()
delay_jfps_222 ==
    /\ upc = "delay_jfps_222"
    /\ LET nowtime == clock
           behind  == last_fps_time + nanotime < nowtime
           owed    == (nowtime - last_fps_time) \div nanotime
           budget  == args.max_skip_count - frames_skipped
           seen    == [hist EXCEPT !.owed = IF behind THEN owed ELSE 0]
       IN  IF behind /\ MaySkip /\ args.max_skip_count <= 0
             THEN /\ frames_to_skip_count' = owed - 1
                  /\ upc' = "delay_jfps_229"
                  /\ hist' = seen
                  /\ UNCHANGED << frames_skipped, imgVars >>
           ELSE IF behind /\ MaySkip /\ owed > budget
             THEN /\ frames_to_skip_count' = budget - 1
                  /\ frames_skipped' = frames_skipped + 1
                  /\ upc' = "delay_jfps_234"
                  /\ hist' = seen
                  /\ UNCHANGED imgVars
           ELSE /\ frames_to_skip_count' = IF behind /\ MaySkip THEN owed
                                           ELSE frames_to_skip_count
                /\ frames_skipped' = IF behind /\ ~MaySkip THEN 0 ELSE frames_skipped
                /\ real_update
                /\ hist' = [seen EXCEPT !.synced = @ + 1]
                /\ upc' = "delay_jfps_239"
    /\ UNCHANGED << winVars, sigVars, msgVars, last_fps_time, clock, op, args, loc,
                    ret, eventVars >>

\* delay_jfps, lines 229-230: self._last_fps_time = time.perf_counter_ns();
\* return False
delay_jfps_229 ==
    /\ upc = "delay_jfps_229"
    /\ last_fps_time' = clock
    /\ Leave(Returns(PyFalse))
    /\ hist' = [SkipFrame(hist) EXCEPT !.branch = 230]
    /\ UNCHANGED << winVars, sigVars, msgVars, imgVars, frames_to_skip_count,
                    frames_skipped, clock, op, args, eventVars >>

\* delay_jfps, lines 234-235: self._last_fps_time = time.perf_counter_ns();
\* return False
delay_jfps_234 ==
    /\ upc = "delay_jfps_234"
    /\ last_fps_time' = clock
    /\ Leave(Returns(PyFalse))
    /\ hist' = [SkipFrame(hist) EXCEPT !.branch = 235]
    /\ UNCHANGED << winVars, sigVars, msgVars, imgVars, frames_to_skip_count,
                    frames_skipped, clock, op, args, eventVars >>

\* delay_jfps, lines 239-242: tt = time.perf_counter_ns();
\* sleep_time = (self._last_fps_time + nanotime - tt) // 1000;
\* if sleep_time > 0: QThread.usleep(sleep_time)
delay_jfps_239 ==
    /\ upc = "delay_jfps_239"
    /\ LET sleep_time == (last_fps_time + nanotime - clock) \div 1000
       IN  IF sleep_time > 0
             THEN /\ usleep(sleep_time)
                  /\ hist' = [hist EXCEPT !.slept = TRUE]
             ELSE UNCHANGED << clock, hist >>
    /\ upc' = "delay_jfps_243"
    /\ UNCHANGED << winVars, sigVars, msgVars, imgVars, pacerVars, op, args, loc,
                    ret, eventVars >>

\* delay_jfps, lines 243-244: self._last_fps_time = time.perf_counter_ns();
\* return True
delay_jfps_243 ==
    /\ upc = "delay_jfps_243"
    /\ last_fps_time' = clock
    /\ Leave(Returns(PyTrue))
    /\ hist' = [ShowFrame(hist) EXCEPT !.branch = 244]
    /\ UNCHANGED << winVars, sigVars, msgVars, imgVars, frames_to_skip_count,
                    frames_skipped, clock, op, args, eventVars >>

----------------------------------------------------------------------------
(* The window with its pacing operations: the user program switches the  *)
(* render mode, draws and paces its frames; the window may be closed.    *)

CloseThread ==
    \/ closeEvent
    \/ closeEvent_146
    \/ closeEvent_147
    \/ closeEvent_148
    \/ closeEvent_149

PacingCalls ==
    \/ \E b \in BOOLEAN : set_immediate(b)
    \/ Draw
    \/ \E ms \in MillisecondsValues : call_delay(ms)
    \/ delay_173
    \/ delay_176
    \/ delay_177
    \/ \E fps \in FpsValues : call_delay_fps(fps)
    \/ delay_fps_191
    \/ delay_fps_194
    \/ delay_fps_197
    \/ \E fps \in FpsValues, m \in MaxSkipValues : call_delay_jfps(fps, m)
    \/ delay_jfps_215
    \/ delay_jfps_222
    \/ delay_jfps_229
    \/ delay_jfps_234
    \/ delay_jfps_239
    \/ delay_jfps_243

NextPacer == CloseThread \/ PacingCalls \/ Elapse

SpecPacer == Init /\ [][NextPacer]_vars

----------------------------------------------------------------------------
(* The drawing loop: the user program, in a loop that never ends, paces   *)
(* its frames with delay_jfps on a window that stays open                 *)
(* (examples/animates: while is_run(): if delay_jfps(...): draw).         *)

\* time.perf_counter_ns() has an undefined reference point: only the
\* difference of two readings means anything.  Between two calls the
\* reference point is moved one tick forward (every reading held by the
\* window moves with it; delay_jfps keeps none in its locals), and the
\* count of the calls made starts anew.
Rebase ==
    LET shift == IF last_fps_time - TickNs >= StartClock THEN TickNs ELSE 0
    IN  /\ shift > 0 \/ hist.frames > 0
        /\ clock' = clock - shift
        /\ last_fps_time' = last_fps_time - shift
        /\ hist' = [hist EXCEPT !.frames = 0,
                                !.pre = IF @[3] >= shift
                                          THEN << @[1], @[2], @[3] - shift >> ELSE @]
        /\ UNCHANGED << winVars, sigVars, msgVars, imgVars, frames_to_skip_count,
                        frames_skipped, userVars, eventVars >>

LoopCalls ==
    \/ \E b \in BOOLEAN : set_immediate(b)
    \/ \E fps \in FpsValues, m \in MaxSkipValues : call_delay_jfps(fps, m)
    \/ delay_jfps_215
    \/ delay_jfps_222
    \/ delay_jfps_229
    \/ delay_jfps_234
    \/ delay_jfps_239
    \/ delay_jfps_243

NextLoop == LoopCalls \/ Elapse \/ Rebase

\* the caller keeps calling: a call that can be made or continued is made
\* or continued (and the clock is never stopped by its reference point)
SpecLoop == Init /\ [][NextLoop]_vars /\ WF_vars(LoopCalls) /\ WF_vars(Rebase)

----------------------------------------------------------------------------
(* Painting: the window system asks the window to repaint itself while    *)
(* the user program switches the render mode, draws and paces its frames. *)

\* a paintEvent that paints the canvas in either mode
paintEvent_live ==
    /\ epc = "idle"
    /\ is_run
    /\ window' = Image_draw_to_device
    /\ UNCHANGED << winVars, sigVars, msgVars, canvas, device_image,
                    capture_count, pacerVars, clock, userVars, eventVars, hist >>

\* paintEvent, lines 69-76: in immediate mode the canvas draws itself to
\* the window, otherwise the device image is drawn to it
paintEvent ==
    /\ epc = "idle"
    /\ is_run
    /\ window' = IF immediate THEN Image_draw_to_device ELSE device_image
    /\ UNCHANGED << winVars, sigVars, msgVars, canvas, device_image,
                    capture_count, pacerVars, clock, userVars, eventVars, hist >>

RenderCalls ==
    \/ \E b \in BOOLEAN : set_immediate(b)
    \/ Draw
    \/ \E ms \in MillisecondsValues : call_delay(ms)
    \/ delay_173
    \/ delay_176
    \/ delay_177
    \/ \E fps \in FpsValues : call_delay_fps(fps)
    \/ delay_fps_191
    \/ delay_fps_194
    \/ delay_fps_197

NextRender == paintEvent \/ RenderCalls \/ Elapse

SpecRender == Init /\ [][NextRender]_vars

----------------------------------------------------------------------------
(* The copy of real_update against the paint handler.  real_update (160)  *)
(* hands the device image to Image.draw_to_device and paintEvent (75)     *)
(* reads it; neither takes a lock and the device image is one object,     *)
(* never swapped.  Image.draw_to_device is not among the sources: the     *)
(* copy is one indivisible step (delay_fps_191) or it is under way for a  *)
(* while, the event thread running meanwhile.                             *)

\* the device image while new is being copied over old: new already, when
\* they are the same picture, and otherwise partly old, partly new (a
\* content that is no version of the canvas)
Partial(old, new) == IF old = new THEN new ELSE 10 * (old + 1) + new

\* the contents that are a whole picture of the canvas
WholeFrames == 0 .. MaxDraw

\* delay_fps, lines 191-193, real_update line 160 entered:
\* self._canvas.draw_to_device(self._device_image) has begun to copy
delay_fps_193_begin ==
    /\ upc = "delay_fps_191"
    /\ last_fps_time' = IF last_fps_time = 0 THEN clock ELSE last_fps_time
    /\ device_image' = Partial(device_image, canvas)
    /\ upc' = "delay_fps_193"
    /\ UNCHANGED << winVars, sigVars, msgVars, canvas, window, capture_count,
                    frames_to_skip_count, frames_skipped, clock, op, args, loc,
                    ret, eventVars, hist >>

\* real_update, lines 160-161: the copy ends; self.update()
delay_fps_193_end ==
    /\ upc = "delay_fps_193"
    /\ real_update
    /\ hist' = [hist EXCEPT !.synced = @ + 1]
    /\ upc' = "delay_fps_194"
    /\ UNCHANGED << winVars, sigVars, msgVars, pacerVars, clock, op, args, loc,
                    ret, eventVars >>

CopyCalls ==
    \/ \E b \in BOOLEAN : set_immediate(b)
    \/ Draw
    \/ \E fps \in FpsValues : call_delay_fps(fps)
    \/ delay_fps_191
    \/ delay_fps_193_begin
    \/ delay_fps_193_end
    \/ delay_fps_194
    \/ delay_fps_197

NextCopy == paintEvent \/ CopyCalls \/ Elapse

SpecCopy == Init /\ [][NextCopy]_vars

----------------------------------------------------------------------------
(* The capture key: key presses, F10 among them, against the user-logic   *)
(* thread's pause and get_key calls.                                      *)

KeyThread ==
    \/ \E e \in KeyEvents \cup F10Events : keyPressEvent(e)
    \/ keyPressEvent_125
    \/ keyPressEvent_126
    \/ KeyCharMsg_set_char_392
    \/ KeyCharMsg_set_char_393
    \/ keyPressEvent_130
    \/ KeyMsg_set_event_367
    \/ KeyMsg_set_event_368
    \/ keyPressEvent_132

KeyCalls ==
    \/ call_pause
    \/ pause_141
    \/ pause_142
    \/ call_get_key
    \/ get_key_277
    \/ get_key_279
    \/ get_key_281
    \/ get_key_282
    \/ get_key_283
    \/ KeyMsg_reset_377
    \/ KeyMsg_reset_378

NextKey == KeyThread \/ KeyCalls \/ Tick

SpecKey == Init /\ [][NextKey]_vars

----------------------------------------------------------------------------
\* the whole window
Next == NextInput \/ NextPacer \/ ProbeCalls \/ paintEvent \/ KeyThread

Spec == Init /\ [][Next]_vars

----------------------------------------------------------------------------
(* Properties of the input operations *)

InputOps == {"pause", "get_char", "get_key", "get_mouse_msg"}

\* the call in progress sits at its wait() and the signal it waits on is clear
Blocked ==
    \/ upc = "pause_142" /\ ~wait_event
    \/ upc = "get_char_261" /\ ~char_key_event
    \/ upc = "get_key_282" /\ ~key_event
    \/ upc = "get_mouse_msg_306" /\ ~mouse_event

\* the last call has returned v
Returned(o, v) == upc = "idle" /\ op = o /\ ret = [tag |-> "return", val |-> v]

\* C1: window close never strands a blocked call: once closeEvent has run to
\* its end, no call of pause, get_char, get_key or get_mouse_msg is left
\* waiting on a cleared signal (only a further input event could wake it).
C1_CloseNeverStrands ==
    (~is_run /\ epc = "idle") => ~Blocked

\* C2: no input signal is lost: when the event thread has stored a message
\* in the buffer a get_* call reads after that call started, and the handler
\* has run to its end, the call is not left waiting on a cleared signal.
C2_NoSignalLost ==
    (is_run /\ epc = "idle" /\ hist.stored /\ op \in InputOps \ {"pause"})
        => ~Blocked

\* C3: a call of a blocking operation that starts on a closed window
\* returns at once, without a sync and without a wait: pause returns,
\* get_char returns ' ', get_key returns (Key_Escape, NoModifier),
\* get_mouse_msg returns (0, 0, NO_MESSAGE, NoButton).
C3_ClosedCallsReturnAtOnce ==
    (hist.closed_call /\ op \in InputOps) =>
        /\ upc = "idle"
        /\ hist.synced = 0
        /\ ~hist.waited
        /\ ret.tag = "return"
        /\ op = "pause" => ret.val = << >>
        /\ op = "get_char" => ret.val = << 32 >>
        /\ op = "get_key" => ret.val = << 16777216, 0 >>
        /\ op = "get_mouse_msg" => ret.val = << 0, 0, NO_MESSAGE, 0 >>

\* a call on a closed window has returned the sentinel although a fresh
\* message is held in its buffer
C3_Witness ==
    /\ Returned("get_key", << Key_Escape, NoModifier >>)
    /\ hist.closed_call
    /\ key_msg.key_event # None
    /\ clock - key_msg.time <= FRESH_NS

\* C4: get_char returns ' ' whenever the window is closed, also when the
\* window closes while the call waits for a char message; then it never
\* returns an empty (None) payload.
C4_GetCharClosedReturnsSpace ==
    (upc = "idle" /\ op = "get_char" /\ (hist.closed_call \/ hist.closed_wake))
        => ret = [tag |-> "return", val |-> << 32 >>]

\* C5: a get_key or get_mouse_msg call that waited and was woken by the
\* window close (no input handler wrote its buffer or set its signal during
\* the call) returns the closed-window
\* sentinel, never the stale message held in the buffer.
C5_WokenByCloseReturnsSentinel ==
    (upc = "idle" /\ hist.waited /\ hist.closed_wake /\ ~hist.stored
        /\ ~hist.signalled) =>
        /\ op = "get_key" => ret.val = << 16777216, 0 >>
        /\ op = "get_mouse_msg" => ret.val = << 0, 0, NO_MESSAGE, 0 >>

----------------------------------------------------------------------------
(* Properties of the pacing operations *)

DelayOps == {"delay", "delay_fps", "delay_jfps"}

\* the pacer state is as it was when the last delay operation was called
PacerUntouched ==
    << frames_to_skip_count, frames_skipped, last_fps_time >> = hist.pre

\* C6: on an open window in immediate mode, delay, delay_fps and delay_jfps
\* raise the invalid-mode error and do nothing else: no sync, no sleep, the
\* pacer state unchanged.
C6_ImmediateModeIsAnError ==
    (op \in DelayOps /\ immediate /\ ~hist.closed_call) =>
        /\ upc = "idle"
        /\ ret.tag = "RuntimeError"
        /\ hist.synced = 0
        /\ ~hist.slept
        /\ PacerUntouched

\* delay_fps has raised in immediate mode on an open window whose pacer
\* had paced a frame before
C6_Witness ==
    /\ upc = "idle" /\ op = "delay_fps" /\ immediate /\ ~hist.closed_call
    /\ ret.tag = "RuntimeError"
    /\ last_fps_time > 0
    /\ canvas # device_image

\* C7: on a closed window, whatever the render mode, delay_fps and
\* delay_jfps return False and delay returns normally; none raises, syncs,
\* sleeps or changes the pacer state.
C7_ClosedDelayIsNoError ==
    (op \in DelayOps /\ hist.closed_call) =>
        /\ upc = "idle"
        /\ ret = [tag |-> "return", val |-> IF op = "delay" THEN << >> ELSE << 0 >>]
        /\ hist.synced = 0
        /\ ~hist.slept
        /\ PacerUntouched

\* C8: delay_fps never skips a frame: a call on an open window in manual
\* mode leaves the skip counters as they were, never moves the last frame
\* time back, and returns True after exactly one sync.
C8_DelayFpsNeverSkips ==
    (op = "delay_fps" /\ ~immediate /\ ~hist.closed_call) =>
        /\ frames_to_skip_count = hist.pre[1]
        /\ frames_skipped = hist.pre[2]
        /\ last_fps_time >= hist.pre[3]
        /\ last_fps_time <= clock
        /\ hist.synced <= 1
        /\ upc = "idle" =>
              /\ ret = [tag |-> "return", val |-> << 1 >>]
              /\ hist.synced = 1
              /\ last_fps_time > 0

\* delay_fps has shown a frame although it was behind schedule (it did
\* not sleep) and delay_jfps had left a skipped-frame tally
C8_Witness ==
    /\ upc = "idle" /\ op = "delay_fps" /\ ret = Returns(PyTrue)
    /\ ~hist.slept
    /\ frames_skipped > 0
    /\ last_fps_time > hist.pre[3] + nanotime

\* C9: delay_jfps syncs the surface if and only if it returns True: a False
\* return (window closed, pending skip consumed, new skip decided) has left
\* the device image alone; a True return has made exactly one sync, and the
\* last frame time is updated after it.
C9_JfpsSyncsIffTrue ==
    (op = "delay_jfps") =>
        /\ hist.synced <= 1
        /\ upc \in {"delay_jfps_215", "delay_jfps_222", "delay_jfps_229",
                    "delay_jfps_234"} => hist.synced = 0
        /\ upc \in {"delay_jfps_239", "delay_jfps_243"} =>
              hist.synced = 1 /\ device_image = canvas
        /\ upc = "idle" =>
              /\ ret.tag = "return" => ret.val \in {<< 0 >>, << 1 >>}
              /\ ret.val = << 1 >> <=> hist.synced = 1
              /\ ret.val = << 1 >> => last_fps_time >= hist.pre[3] /\ last_fps_time > 0

\* delay_jfps has returned False for a skipped frame and the drawn canvas is
\* not on the device image
C9_Witness ==
    /\ upc = "idle" /\ op = "delay_jfps" /\ ret = Returns(PyFalse)
    /\ is_run
    /\ hist.branch \in {218, 230, 235}
    /\ canvas # device_image

\* C10: with one max_skip_count >= 1 in all delay_jfps calls, on an open
\* window in manual mode, never more than max_skip_count consecutive calls
\* return False.
C10_AtMostMaxSkipFalses ==
    \A m \in MaxSkipValues :
        (m >= 1 /\ hist.skips = {m}) => hist.falses <= m

\* C11: the display never falls arbitrarily far behind: as long as the
\* window stays open in manual mode and the caller keeps calling
\* delay_jfps with one max_skip_count, some call returns True again and
\* again; there is no infinite run of False returns.
C11_NoInfiniteRunOfFalse ==
    <>[](is_run /\ ~immediate /\ op = "delay_jfps" /\ Cardinality(hist.skips) = 1)
        => []<>(upc = "idle" /\ ret = Returns(PyTrue))

----------------------------------------------------------------------------
(* Properties of the freshness probes *)

ProbeOps == {"has_kb_hit", "has_kb_msg", "has_mouse_msg"}

\* C12: the freshness probes are true only for a held message: has_kb_hit,
\* has_kb_msg and has_mouse_msg return True only if the corresponding buffer
\* (char, key, mouse) holds a payload stored within the last 100 ms, for
\* every clock value: never before any event arrived, never right after the
\* matching get_* call reset the buffer.
C12_ProbeTrueOnlyIfHeld ==
    (upc = "idle" /\ op \in ProbeOps /\ ret = Returns(PyTrue)) => hist.held

\* C13: has_kb_msg reports the freshness of the key buffer, the one get_key
\* reads: it returns True exactly when a key press of any kind (char key or
\* not) is held in the key buffer, stored within the last 100 ms and not yet
\* consumed by get_key, so that a get_key right after a True answer does not
\* block.
C13_HasKbMsgReportsKeyBuffer ==
    (upc = "idle" /\ op = "has_kb_msg" /\ ret.tag = "return") =>
        (ret.val = PyTrue <=> hist.held)

----------------------------------------------------------------------------
(* Properties of the message buffers *)

\* the kind mousePressEvent (line 111) and mouseReleaseEvent (line 115)
\* store with the event e
KindOf(e) == IF e \in PressEvents THEN PRESS_MESSAGE ELSE RELEASE_MESSAGE

\* what get_mouse_msg, get_key, get_char return for one single event e
MouseTupleOf(e) == << XOf(e), YOf(e), KindOf(e), ButtonOf(e) >>
KeyTupleOf(e) == << KeyOf(e), ModifiersOf(e) >>
CharOf(e) == << TextOf(e) >>

\* C14: no torn reads of a message: every tuple returned by get_mouse_msg
\* other than the sentinel has its position, button and kind taken from one
\* and the same mouse event, and every value returned by get_key and
\* get_char comes from one single key event, under every interleaving of
\* the callbacks with the read and the reset.
C14_NoTornRead ==
    (upc = "idle" /\ ret.tag = "return") =>
        /\ op = "get_mouse_msg" =>
              \/ ret.val = << 0, 0, NO_MESSAGE, NoButton >>
              \/ \E e \in PressEvents \cup ReleaseEvents : ret.val = MouseTupleOf(e)
        /\ op = "get_key" =>
              \/ ret.val = << Key_Escape, NoModifier >>
              \/ \E e \in KeyEvents : ret.val = KeyTupleOf(e)
        /\ op = "get_char" =>
              \/ ret.val \in {<< SPACE >>, << None >>}
              \/ \E e \in KeyEvents : IsCharKey(e) /\ ret.val = CharOf(e)

\* the positions of get_char after its wait
AfterWait_get_char == {"get_char_262", "get_char_402", "get_char_403", "idle"}

\* C15: fresh messages are delivered without blocking and consumed exactly
\* once.  If a char key event has arrived (its handler has finished) less
\* than 100 ms before get_char reads the clock on an open window, and no
\* key event arrives during the call, the call does not wait and returns
\* that character; and a get_char that starts when the buffer has been
\* consumed and no key event has arrived since does not get past its wait
\* before a char key event signals or the window closes.
C15_FreshOnceThenBlocks ==
    (op = "get_char" /\ ~hist.closed_call) =>
        /\ (hist.held /\ hist.quiet /\ ~hist.stored) =>
              /\ ~hist.waited
              /\ upc \in {"get_char_402", "get_char_403"} => loc.e = hist.had
              /\ upc = "idle" => ret = Returns(<< hist.had >>)
        /\ (hist.void /\ hist.quiet /\ upc \in AfterWait_get_char) =>
              /\ hist.waited
              /\ hist.signalled \/ hist.closed_wake

GetOps == {"get_char", "get_key", "get_mouse_msg"}

\* the value v returned by operation o carries the payload p: the character
\* of get_char, the key and modifiers of get_key, the position and button
\* of get_mouse_msg
Carries(o, v, p) ==
    IF o = "get_char" THEN v = << p >>
    ELSE IF o = "get_key" THEN v = KeyTupleOf(p)
    ELSE Len(v) = 4 /\ v[1] = XOf(p) /\ v[2] = YOf(p) /\ v[4] = ButtonOf(p)

\* C16: each buffer is a mailbox.  When the events of a kind have arrived
\* before a get_* call reads (no handler in progress when it reads the
\* clock, none writing its buffer during the call), the call returns the
\* payload of the most recent one; and no call ever returns a payload that
\* was overwritten by a later one before being read.
C16_Mailbox ==
    (op \in GetOps /\ upc = "idle" /\ ret.tag = "return" /\ ~hist.closed_call) =>
        /\ (hist.quiet /\ ~hist.stored /\ hist.had # None) =>
              Carries(op, ret.val, hist.had)
        /\ ~hist.late

\* key A then the up arrow have arrived, and get_key has returned the up
\* arrow, the overwritten A being the earlier one
C16_Witness ==
    /\ Returned("get_key", KeyTupleOf(2))
    /\ 1 \in hist.over["key"]
    /\ hist.quiet /\ ~hist.stored /\ hist.had = 2

\* C17: pause on an open window returns only because of a mouse press, a
\* key press or a window close that occurred after pause cleared its wait
\* signal: input that arrived before does not satisfy it, and a mouse
\* release never wakes it.
C17_PauseWokenByLaterInput ==
    (op = "pause" /\ upc = "idle" /\ ~hist.closed_call) =>
        /\ hist.waited
        /\ hist.signalled \/ hist.closed_wake

\* pause has returned on an open window after a key press, a mouse press
\* and a mouse release being held in the buffers
C17_Witness ==
    /\ Returned("pause", PyNone) /\ hist.waited /\ hist.signalled
    /\ is_run /\ ~hist.closed_call
    /\ mouse_msg.mouse_event \in ReleaseEvents /\ mouse_msg.type = RELEASE_MESSAGE

C19_FailedSaveKeepsSignals ==
    [][ (epc # "idle" /\ epc' = "idle" /\ IsCaptureKey(cur.e)) =>
            /\ epc = "key_132"
            /\ key_event' ]_vars

\* C20: in every state each message buffer has the time zero exactly when
\* its payload is empty, and the mouse buffer has the kind NO_MESSAGE
\* exactly when its payload is empty.
C20_TimeZeroIffEmpty ==
    /\ key_msg.time = 0 <=> key_msg.key_event = None
    /\ key_char_msg.time = 0 <=> key_char_msg.key = None
    /\ mouse_msg.time = 0 <=> mouse_msg.mouse_event = None
    /\ mouse_msg.type = NO_MESSAGE <=> mouse_msg.mouse_event = None

\* C21: no paintEvent reads the device image while real_update is copying
\* to it: whatever is on the window is a whole picture of the canvas, never
\* one partly copied.
C21_PaintsWholeFrames == window # None => window \in WholeFrames

\* the call of delay_jfps that has returned was made in manual mode on an
\* open window
JfpsDone ==
    /\ upc = "idle" /\ op = "delay_jfps" /\ ret.tag = "return"
    /\ ~hist.closed_call /\ hist.branch # 213

\* C22: a delay_jfps call made on an open window in manual mode with no
\* pending skip, which finds itself behind schedule with a tally of skipped
\* frames above max_skip_count, resets the tally to 0, syncs the device
\* image with the canvas and returns True.
C22_ForcedRecovery ==
    (JfpsDone /\ hist.pre[1] = 0 /\ hist.owed > 0
              /\ hist.pre[2] > args.max_skip_count) =>
        /\ ret = Returns(PyTrue)
        /\ hist.synced = 1
        /\ frames_skipped = 0

\* C22: a call with max_skip_count 0 has recovered from a tally of 1
C22_Witness ==
    /\ JfpsDone /\ hist.pre[1] = 0 /\ hist.owed > 0
    /\ hist.pre[2] > args.max_skip_count
    /\ ret = Returns(PyTrue)
    /\ frames_skipped = 0
    /\ device_image = canvas /\ canvas > 0

C24_ResetKeepsUnread ==
    [][ /\ (key_msg.key_event # None /\ key_msg'.key_event = None) =>
              key_msg.key_event = loc.e
        /\ (key_char_msg.key # None /\ key_char_msg'.key = None) =>
              key_char_msg.key = loc.e
        /\ (mouse_msg.mouse_event # None /\ mouse_msg'.mouse_event = None) =>
              mouse_msg.mouse_event = loc.e ]_vars

====
